---- MODULE Spec2Model ----
(***************************************************************************)
(* Model of the caption endpoint of gpt-img: the POST handler's batch loop *)
(* (one generateText call per image, one stream event per image), the      *)
(* caption formatter formatCaption, the phrase filter applyNegativeFilters *)
(* and the forms' reader of the event stream (handleSubmit), which hands   *)
(* captions to ImageCaptionerClient.                                       *)
(*                                                                         *)
(* A string is a sequence of one-character strings; string functions are   *)
(* modelled by what the JavaScript built-ins and regular expressions do.   *)
(* JavaScript's 0-based indices are kept where the code compares them      *)
(* (lastIndexOf), and -1 stands for "not found" as in the code.            *)
(***************************************************************************)
EXTENDS Integers, Sequences, FiniteSets, TLC

VARIABLES
    images,           \* formData.getAll('images'): <<[name, ok, text, message]>>
    prefix,           \* formData.get('prefix') || ''
    suffix,           \* formData.get('suffix') || ''
    maxChars,         \* parseInt(formData.get('maxChars')), NoMaxChars if absent
    negativeFilters,  \* promptStyle?.negativeFilters || []
    pc,               \* position of the stream's start(): "loop", "awaiting",
                      \* "closed", or "thrown" (left by an exception)
    i,                \* loop index of start() (1-based here)
    calls,            \* number of generateText calls started, per image
    stream,           \* chunks enqueued on the ReadableStream, in order
    cancelled,        \* the consumer has cancelled the ReadableStream
    clientPc,         \* position of handleSubmit: "reading", "submitted", "returned"
    read,             \* number of events handleSubmit has taken from the reader
    tempCaptions,     \* handleSubmit's tempCaptions
    captions,         \* ImageCaptionerClient's captions state
    error,            \* ImageCaptionerClient's error state: <<>> for null, else <<message>>
    archive,          \* the caption lists posted to /api/download, in order
    formService,      \* formData.get('service'), "" if absent
    formApiKey,       \* formData.get('apiKey'), "" if absent
    envApiKey,        \* process.env['OPENAI_API_KEY'], "" if unset
    response,         \* the Response POST has returned, NoResponse before
    submission,       \* number of the handleSubmit run in this tab, from 1
    downloadUrl,      \* ImageCaptionerClient's downloadUrl: <<>> for null, else
                      \* <<the submission whose archive the link holds>>
    received,         \* bytes of the response body handed out by reader.read()
    pending,          \* bytes the TextDecoder holds back between decode calls
    completeData      \* handleSubmit's completeData

\* the state of the forms and of ImageCaptionerClient
clientVars == <<clientPc, read, tempCaptions, captions, error, archive>>

\* the request's service fields and the answer of POST
requestVars == <<formService, formApiKey, envApiKey, response>>

\* what ImageCaptionerClient keeps from one submission to the next
tabVars == <<submission, downloadUrl>>

\* the byte reader of handleSubmit
readerVars == <<received, pending, completeData>>

vars == <<images, prefix, suffix, maxChars, negativeFilters, pc, i, calls, stream,
          cancelled, clientPc, read, tempCaptions, captions, error, archive,
          formService, formApiKey, envApiKey, response, submission, downloadUrl,
          received, pending, completeData>>

(***************************************************************************)
(* Characters                                                              *)
(***************************************************************************)
LowerLetters ==
    <<"a","b","c","d","e","f","g","h","i","j","k","l","m",
      "n","o","p","q","r","s","t","u","v","w","x","y","z">>

UpperLetters ==
    <<"A","B","C","D","E","F","G","H","I","J","K","L","M",
      "N","O","P","Q","R","S","T","U","V","W","X","Y","Z">>

Digits == {"0","1","2","3","4","5","6","7","8","9"}

LowerSet == {LowerLetters[k] : k \in 1..Len(LowerLetters)}

UpperSet == {UpperLetters[k] : k \in 1..Len(UpperLetters)}

\* String.prototype.toLowerCase on one character
ToLowerMap == [c \in UpperSet |->
                 LowerLetters[CHOOSE k \in 1..Len(UpperLetters) : UpperLetters[k] = c]]

\* String.prototype.toUpperCase on one character
ToUpperMap == [c \in LowerSet |->
                 UpperLetters[CHOOSE k \in 1..Len(LowerLetters) : LowerLetters[k] = c]]

ToLowerCase(c) == IF c \in UpperSet THEN ToLowerMap[c] ELSE c

ToUpperCase(c) == IF c \in LowerSet THEN ToUpperMap[c] ELSE c

\* the regular expression class \s, and what trim() removes
IsSpace(c) == c \in {" ", "\n", "\t", "\r"}

\* the regular expression class \w
IsWordChar(c) == c \in LowerSet \cup UpperSet \cup Digits \cup {"_"}

(***************************************************************************)
(* String built-ins                                                        *)
(***************************************************************************)
\* s.substring(0, n)
Substring0(s, n) == SubSeq(s, 1, IF n < Len(s) THEN n ELSE Len(s))

\* s.slice(1)
Slice1(s) == SubSeq(s, 2, Len(s))

\* s.trim()
Trim(s) ==
    LET keep == {k \in 1..Len(s) : ~IsSpace(s[k])}
    IN  IF keep = {} THEN <<>>
        ELSE SubSeq(s, CHOOSE k \in keep : \A m \in keep : k <= m,
                       CHOOSE k \in keep : \A m \in keep : k >= m)

\* s.lastIndexOf(' '): 0-based, -1 when there is none
LastIndexOfSpace(s) ==
    LET at == {k \in 1..Len(s) : s[k] = " "}
    IN  IF at = {} THEN -1 ELSE (CHOOSE k \in at : \A m \in at : k >= m) - 1

\* (mutant) the whole string is lowercased
LowerAll(s) == [k \in 1..Len(s) |-> ToLowerCase(s[k])]

\* s.charAt(0).toLowerCase() + s.slice(1)
LowerFirst(s) == IF s = <<>> THEN <<>> ELSE <<ToLowerCase(s[1])>> \o Slice1(s)

\* s.charAt(0).toUpperCase() + s.slice(1)
UpperFirst(s) == IF s = <<>> THEN <<>> ELSE <<ToUpperCase(s[1])>> \o Slice1(s)

\* s.startsWith(p)
StartsWith(s, p) == Len(s) >= Len(p) /\ SubSeq(s, 1, Len(p)) = p

\* s.endsWith(p)
EndsWith(s, p) == Len(s) >= Len(p) /\ SubSeq(s, Len(s) - Len(p) + 1, Len(s)) = p

\* p occurs in s as a substring
Includes(s, p) == \E k \in 0..(Len(s) - Len(p)) : SubSeq(s, k + 1, k + Len(p)) = p

(***************************************************************************)
(* Regular-expression replacements used by the code                        *)
(***************************************************************************)
\* s.replace(/,$/, '')
StripTrailingComma(s) ==
    IF s # <<>> /\ s[Len(s)] = "," THEN SubSeq(s, 1, Len(s) - 1) ELSE s

\* s.replace(/^,/, '')
StripLeadingComma(s) == IF s # <<>> /\ s[1] = "," THEN Slice1(s) ELSE s

\* s.replace(/\.$/, ''): $ is the end of the input (no m flag)
StripTrailingPeriod(s) ==
    IF s # <<>> /\ s[Len(s)] = "." THEN SubSeq(s, 1, Len(s) - 1) ELSE s

\* s.replace(/\n/g, ' ')
NewlinesToSpaces(s) == [k \in 1..Len(s) |-> IF s[k] = "\n" THEN " " ELSE s[k]]

\* the elements of s at the indices K, in order
Pick(s, K) ==
    [j \in 1..Cardinality(K) |->
        s[CHOOSE k \in K : Cardinality({m \in K : m <= k}) = j]]

\* s.replace(/\s+/g, ' '): every maximal run of whitespace becomes one space
CollapseSpaces(s) ==
    LET keep == {k \in 1..Len(s) : ~IsSpace(s[k]) \/ k = 1 \/ ~IsSpace(s[k-1])}
        t    == [k \in 1..Len(s) |-> IF IsSpace(s[k]) THEN " " ELSE s[k]]
    IN  Pick(t, keep)

\* s.replace(/^[,\s]+/, '')
StripLeadingCommasSpaces(s) ==
    LET stop == {k \in 1..Len(s) : ~(s[k] = "," \/ IsSpace(s[k]))}
    IN  IF stop = {} THEN <<>>
        ELSE SubSeq(s, CHOOSE k \in stop : \A m \in stop : k <= m, Len(s))

\* s.replace(/[,\s]+$/, '')
StripTrailingCommasSpaces(s) ==
    LET stop == {k \in 1..Len(s) : ~(s[k] = "," \/ IsSpace(s[k]))}
    IN  IF stop = {} THEN <<>>
        ELSE SubSeq(s, 1, CHOOSE k \in stop : \A m \in stop : k >= m)

\* index of the first non-whitespace character of s at or after k (Len(s)+1 if none)
SkipSpaces(s, k) ==
    LET stop == {m \in k..Len(s) : ~IsSpace(s[m])}
    IN  IF stop = {} THEN Len(s) + 1 ELSE CHOOSE m \in stop : \A n \in stop : m <= n

\* the least element of a non-empty set of indices
Least(K) == CHOOSE k \in K : \A m \in K : k <= m

\* /,\s*,/ matches s at index k: a comma, any whitespace, a comma
CommaPairAt(s, k) ==
    /\ s[k] = ","
    /\ SkipSpaces(s, k + 1) <= Len(s)
    /\ s[SkipSpaces(s, k + 1)] = ","

RECURSIVE CollapseCommasFrom(_, _)
\* s.replace(/,\s*,/g, ','), scanning from index k: the leftmost match is
\* replaced by one comma and the scan resumes after the match
CollapseCommasFrom(s, k) ==
    LET hits == {m \in k..Len(s) : CommaPairAt(s, m)}
    IN  IF hits = {} THEN SubSeq(s, k, Len(s))
        ELSE SubSeq(s, k, Least(hits))
                 \o CollapseCommasFrom(s, SkipSpaces(s, Least(hits) + 1) + 1)

CollapseCommas(s) == CollapseCommasFrom(s, 1)

\* \b between s[k] and s[k+1] (k = 0: start of input, k = Len(s): end of input)
WordBoundary(s, k) ==
    LET before == k >= 1 /\ IsWordChar(s[k])
        after  == k < Len(s) /\ IsWordChar(s[k + 1])
    IN  before # after

\* (mutant) the closing \b is missing: the phrase also matches the start of a
\* longer word
PhraseMatchesAtOpenEnd(s, filter, k) ==
    /\ k + Len(filter) - 1 <= Len(s)
    /\ \A m \in 1..Len(filter) : ToLowerCase(s[k + m - 1]) = ToLowerCase(filter[m])
    /\ WordBoundary(s, k - 1)

\* new RegExp(`\\b${filter}\\b`, 'gi') matches s at index k (1-based)
PhraseMatchesAt(s, filter, k) ==
    /\ k + Len(filter) - 1 <= Len(s)
    /\ \A m \in 1..Len(filter) : ToLowerCase(s[k + m - 1]) = ToLowerCase(filter[m])
    /\ WordBoundary(s, k - 1)
    /\ WordBoundary(s, k + Len(filter) - 1)

RECURSIVE RemovePhraseFrom(_, _, _)
\* s.replace(regex, ''), scanning from index k: matches are found left to right
\* and do not overlap
RemovePhraseFrom(s, filter, k) ==
    LET hits == {m \in k..Len(s) : PhraseMatchesAt(s, filter, m)}
    IN  IF hits = {} THEN SubSeq(s, k, Len(s))
        ELSE SubSeq(s, k, Least(hits) - 1)
                 \o RemovePhraseFrom(s, filter, Least(hits) + Len(filter))

RemovePhrase(s, filter) == RemovePhraseFrom(s, filter, 1)

(***************************************************************************)
(* applyNegativeFilters (src/lib/prompt-styles.ts)                         *)
(***************************************************************************)
RECURSIVE RemovePhrases(_, _, _)
\* the for loop: cleaned = cleaned.replace(regex, '').trim(), one filter after
\* the other, starting with filter number k
RemovePhrases(cleaned, filters, k) ==
    IF k > Len(filters) THEN cleaned
    ELSE LET replaced == Trim(RemovePhrase(cleaned, filters[k]))
         IN  \* the test has TLC work out this step before it goes on to the next
             IF Len(replaced) = 0 THEN RemovePhrases(<<>>, filters, k + 1)
             ELSE RemovePhrases(replaced, filters, k + 1)

\* the four clean-up replacements after the loop
CleanUp(cleaned) ==
    StripTrailingCommasSpaces(
        StripLeadingCommasSpaces(
            CollapseCommas(
                CollapseSpaces(cleaned))))

\* if (cleaned.length > 0) cleaned = cleaned.charAt(0).toUpperCase() + cleaned.slice(1)
Capitalize(cleaned) == IF Len(cleaned) > 0 THEN UpperFirst(cleaned) ELSE cleaned

applyNegativeFilters(caption, filters) ==
    Capitalize(CleanUp(RemovePhrases(caption, filters, 1)))

(***************************************************************************)
(* formatCaption (the route handler)                                       *)
(***************************************************************************)
\* maxChars when the form sends none (undefined): falsy, like 0
NoMaxChars == 0

\* prefix.trim().replace(/,$/, '')
TrimmedPrefix(p) == StripTrailingComma(Trim(p))

\* suffix.trim().replace(/^,/, '')
TrimmedSuffix(x) == StripLeadingComma(Trim(x))

\* (mutant) the trailing period is kept
CaptionBodyKeepsPeriod(caption) == LowerFirst(caption)

\* the caption after "lowercase the first letter" and "remove trailing period"
CaptionBody(caption) == StripTrailingPeriod(LowerFirst(caption))

\* trimmedPrefix ? `${trimmedPrefix}, ` : ''
PrefixPart(p) == IF TrimmedPrefix(p) # <<>> THEN TrimmedPrefix(p) \o <<",", " ">> ELSE <<>>

\* trimmedSuffix ? `, ${trimmedSuffix}` : ''
SuffixPart(x) == IF TrimmedSuffix(x) # <<>> THEN <<",", " ">> \o TrimmedSuffix(x) ELSE <<>>

\* `${prefixPart}${caption}${suffixPart}`
Composed(caption, p, x) == PrefixPart(p) \o CaptionBody(caption) \o SuffixPart(x)

\* (mutant) whitespace runs are not collapsed
NormalizeKeepsRuns(s) == Trim(NewlinesToSpaces(s))

\* .replace(/\n/g, ' ').replace(/\s+/g, ' ').trim()
Normalize(s) == Trim(CollapseSpaces(NewlinesToSpaces(s)))

\* (mutant) any space is taken as a word boundary to cut at
PastThresholdAnySpace(lastSpace, m) == lastSpace >= 0

\* lastSpace > maxChars * 0.8
PastThreshold(lastSpace, m) == lastSpace * 10 > m * 8

\* (mutant) the hard cut keeps one character too many
CutToLimitOffByOne(formatted, m) ==
    LET cut       == Trim(Substring0(formatted, m + 1))
        lastSpace == LastIndexOfSpace(cut)
    IN  IF PastThreshold(lastSpace, m)
        THEN Trim(Substring0(cut, lastSpace))
        ELSE cut

\* (mutant) neither cut is trimmed
CutToLimitUntrimmed(formatted, m) ==
    LET cut       == Substring0(formatted, m)
        lastSpace == LastIndexOfSpace(cut)
    IN  IF PastThreshold(lastSpace, m)
        THEN Substring0(cut, lastSpace)
        ELSE cut

\* the body of "if (maxChars && formatted.length > maxChars)"
CutToLimit(formatted, m) ==
    LET cut       == Trim(Substring0(formatted, m))
        lastSpace == LastIndexOfSpace(cut)
    IN  IF PastThreshold(lastSpace, m)
        THEN Trim(Substring0(cut, lastSpace))
        ELSE cut

\* (mutant) a string of exactly maxChars characters is cut as well
OverLimitInclusive(formatted, m) == m # NoMaxChars /\ Len(formatted) >= m

\* maxChars && formatted.length > maxChars
OverLimit(formatted, m) == m # NoMaxChars /\ Len(formatted) > m

\* the "Apply character limit if specified" stage
Truncate(formatted, m) ==
    IF OverLimit(formatted, m) THEN CutToLimit(formatted, m) ELSE formatted

formatCaption(caption, p, x, m) == Truncate(Normalize(Composed(caption, p, x)), m)

(***************************************************************************)
(* The pipeline of one image in POST: filters only when the list is not    *)
(* empty, then formatCaption                                               *)
(***************************************************************************)
\* (mutant) a caption that filtering has emptied is replaced by the raw text
FilteredCaptionOrRaw(text, filters) ==
    IF Len(filters) > 0 /\ applyNegativeFilters(text, filters) # <<>>
    THEN applyNegativeFilters(text, filters) ELSE text

FilteredCaption(text, filters) ==
    IF Len(filters) > 0 THEN applyNegativeFilters(text, filters) ELSE text

ProcessCaption(text, filters, p, x, m) ==
    formatCaption(FilteredCaption(text, filters), p, x, m)

(***************************************************************************)
(* Event naming and error text (the route handler)                         *)
(***************************************************************************)
\* the characters of name after its last "/" (path.parse(name).base)
BaseName(name) ==
    LET slashes == {k \in 1..Len(name) : name[k] = "/"}
    IN  IF slashes = {} THEN name
        ELSE SubSeq(name, (CHOOSE k \in slashes : \A m \in slashes : k >= m) + 1, Len(name))

\* path.parse(name).name: the base without its last extension; a dot that
\* starts the base begins no extension, and ".." has none
PathName(name) ==
    LET base == BaseName(name)
        dots == {k \in 2..Len(base) : base[k] = "."}
    IN  IF dots = {} \/ base = <<".", ".">> THEN base
        ELSE SubSeq(base, 1, (CHOOSE k \in dots : \A m \in dots : k >= m) - 1)

\* `${path.parse(image.name).name}.txt`
TxtFilename(name) == PathName(name) \o <<".", "t", "x", "t">>

\* 'Unknown error occurred'
UnknownErrorMessage == <<"U","n","k","n","o","w","n"," ","e","r","r","o","r"," ","o","c","c","u","r","r","e","d">>

\* error instanceof Error ? error.message : 'Unknown error occurred'
ErrorMessage(image) ==
    IF image.thrown = "Error" THEN image.message ELSE UnknownErrorMessage

\* `Error: ${errorMessage}`
ErrorCaption(image) == <<"E", "r", "r", "o", "r", ":", " ">> \o ErrorMessage(image)

\* the payload of one `data: ${JSON.stringify({ filename, caption })}\n\n` chunk
Event(filename, caption) == [filename |-> filename, caption |-> caption]

\* the chunk enqueued in the try block for an image whose call returned text
SuccessEvent(image, filters, p, x, m) ==
    Event(TxtFilename(image.name), ProcessCaption(image.text, filters, p, x, m))

\* (mutant) the catch block names the chunk after the whole image name
ErrorEventWholeName(image) ==
    Event(image.name \o <<".", "t", "x", "t">>, ErrorCaption(image))

\* the chunk enqueued in the catch block
ErrorEvent(image) == Event(TxtFilename(image.name), ErrorCaption(image))

(***************************************************************************)
(* The stream's start(controller): the batch loop                          *)
(***************************************************************************)
\* (mutant) the calls of all remaining images are started together
StartGenerateAll ==
    /\ pc = "loop"
    /\ i <= Len(images)
    /\ pc' = "awaiting"
    /\ calls' = [k \in DOMAIN calls |-> IF k >= i THEN calls[k] + 1 ELSE calls[k]]
    /\ UNCHANGED <<images, prefix, suffix, maxChars, negativeFilters, i, stream>>
    /\ UNCHANGED <<cancelled, clientVars>>
    /\ UNCHANGED <<requestVars, tabVars, readerVars>>

\* for (let i = 0; i < images.length; i++) { await image.arrayBuffer(); ...;
\* await generateText(...): the call of image i is started
StartGenerate ==
    /\ pc = "loop"
    /\ i <= Len(images)
    /\ pc' = "awaiting"
    /\ calls' = [calls EXCEPT ![i] = @ + 1]
    /\ UNCHANGED <<images, prefix, suffix, maxChars, negativeFilters, i, stream>>
    /\ UNCHANGED <<cancelled, clientVars>>
    /\ UNCHANGED <<requestVars, tabVars, readerVars>>

\* generateText resolves: the rest of the try block, then i++
GenerateResolves ==
    /\ pc = "awaiting"
    /\ ~cancelled
    /\ images[i].thrown = "none"
    /\ stream' = Append(stream,
                        SuccessEvent(images[i], negativeFilters, prefix, suffix, maxChars))
    /\ i' = i + 1
    /\ pc' = "loop"
    /\ UNCHANGED <<images, prefix, suffix, maxChars, negativeFilters, calls>>
    /\ UNCHANGED <<cancelled, clientVars>>
    /\ UNCHANGED <<requestVars, tabVars, readerVars>>

\* (mutant) the rejection ends the batch: the loop is left and the stream closed
GenerateRejectsAborts ==
    /\ pc = "awaiting"
    /\ ~cancelled
    /\ images[i].thrown # "none"
    /\ stream' = Append(stream, ErrorEvent(images[i]))
    /\ pc' = "closed"
    /\ UNCHANGED <<images, prefix, suffix, maxChars, negativeFilters, i, calls>>
    /\ UNCHANGED <<cancelled, clientVars>>
    /\ UNCHANGED <<requestVars, tabVars, readerVars>>

\* (mutant) the rejected call is made again and nothing is enqueued
GenerateRejectsRetries ==
    /\ pc = "awaiting"
    /\ ~cancelled
    /\ images[i].thrown # "none"
    /\ pc' = "loop"
    /\ UNCHANGED <<images, prefix, suffix, maxChars, negativeFilters, i, calls, stream>>
    /\ UNCHANGED <<cancelled, clientVars>>
    /\ UNCHANGED <<requestVars, tabVars, readerVars>>

\* (mutant) no catch block: the rejection leaves start() as an exception
GenerateRejectsThrows ==
    /\ pc = "awaiting"
    /\ ~cancelled
    /\ images[i].thrown # "none"
    /\ pc' = "thrown"
    /\ UNCHANGED <<images, prefix, suffix, maxChars, negativeFilters, i, calls, stream>>
    /\ UNCHANGED <<cancelled, clientVars>>
    /\ UNCHANGED <<requestVars, tabVars, readerVars>>

\* generateText rejects: the catch block, then i++
GenerateRejects ==
    /\ pc = "awaiting"
    /\ ~cancelled
    /\ images[i].thrown # "none"
    /\ stream' = Append(stream, ErrorEvent(images[i]))
    /\ i' = i + 1
    /\ pc' = "loop"
    /\ UNCHANGED <<images, prefix, suffix, maxChars, negativeFilters, calls>>
    /\ UNCHANGED <<cancelled, clientVars>>
    /\ UNCHANGED <<requestVars, tabVars, readerVars>>

\* the loop condition fails: controller.close()
Close ==
    /\ pc = "loop"
    /\ i > Len(images)
    /\ pc' = "closed"
    /\ UNCHANGED <<images, prefix, suffix, maxChars, negativeFilters, i, calls, stream>>
    /\ UNCHANGED <<cancelled, clientVars>>
    /\ UNCHANGED <<requestVars, tabVars, readerVars>>

Next == StartGenerate \/ GenerateResolves \/ GenerateRejects \/ Close

(* -------- the consumer cancels the stream ------------------------------- *)
\* The ReadableStream is built with start() only: no cancel() callback, no
\* abort signal handed to generateText, and the loop tests nothing but i.
\* start() is suspended at await image.arrayBuffer() (pc = "loop" with an
\* image left) or at await generateText (pc = "awaiting") when the consumer
\* cancels.
Cancel ==
    /\ ~cancelled
    /\ \/ pc = "awaiting"
       \/ pc = "loop" /\ i <= Len(images)
    /\ cancelled' = TRUE
    /\ UNCHANGED <<images, prefix, suffix, maxChars, negativeFilters, pc, i, calls, stream>>
    /\ UNCHANGED clientVars
    /\ UNCHANGED <<requestVars, tabVars, readerVars>>

\* generateText settles after the cancellation: controller.enqueue throws on
\* a cancelled stream, in the try block and again in the catch block, and the
\* exception leaves start()
EnqueueThrows ==
    /\ pc = "awaiting"
    /\ cancelled
    /\ pc' = "thrown"
    /\ UNCHANGED <<images, prefix, suffix, maxChars, negativeFilters, i, calls, stream>>
    /\ UNCHANGED <<cancelled, clientVars>>
    /\ UNCHANGED <<requestVars, tabVars, readerVars>>

NextCancel == Next \/ Cancel \/ EnqueueThrows

(* -------- the forms' handleSubmit reading the stream -------------------- *)
\* s.substring(n)
SubstringFrom(s, n) == SubSeq(s, n + 1, Len(s))

ErrorPrefix == <<"E","r","r","o","r",":">>   \* 'Error:'

\* caption.startsWith('Error:')
IsErrorMarker(caption) ==
    /\ Len(caption) >= Len(ErrorPrefix)
    /\ SubSeq(caption, 1, Len(ErrorPrefix)) = ErrorPrefix

\* { filename, content: caption }
Caption(filename, caption) == [filename |-> filename, content |-> caption]

\* the next event is a caption: tempCaptions.push, onProgress (the parent's
\* handleCaptionProgress appends to captions)
ClientReadsCaption ==
    /\ clientPc = "reading"
    /\ read < Len(stream)
    /\ ~IsErrorMarker(stream[read + 1].caption)
    /\ LET newCaption == Caption(stream[read + 1].filename, stream[read + 1].caption)
       IN  /\ tempCaptions' = Append(tempCaptions, newCaption)
           /\ captions' = Append(captions, newCaption)
    /\ read' = read + 1
    /\ UNCHANGED <<images, prefix, suffix, maxChars, negativeFilters, pc, i, calls, stream>>
    /\ UNCHANGED <<cancelled, clientPc, error, archive>>
    /\ UNCHANGED <<requestVars, tabVars, readerVars>>

\* the next event is an error marker: onError (the parent's handleError sets
\* error), setLoading(false), return
ClientReadsError ==
    /\ clientPc = "reading"
    /\ read < Len(stream)
    /\ IsErrorMarker(stream[read + 1].caption)
    /\ error' = <<SubstringFrom(stream[read + 1].caption, 7)>>
    /\ read' = read + 1
    /\ clientPc' = "returned"
    /\ UNCHANGED <<images, prefix, suffix, maxChars, negativeFilters, pc, i, calls, stream>>
    /\ UNCHANGED <<cancelled, tempCaptions, captions, archive>>
    /\ UNCHANGED <<requestVars, tabVars, readerVars>>

\* reader.read() reports done: onSubmit(tempCaptions), which the parent's
\* handleCaptions passes to handleDownload, the POST to /api/download, whose
\* answer becomes the download link (setDownloadUrl)
ClientDone ==
    /\ clientPc = "reading"
    /\ pc = "closed"
    /\ read = Len(stream)
    /\ archive' = Append(archive, tempCaptions)
    /\ downloadUrl' = <<submission>>
    /\ clientPc' = "submitted"
    /\ UNCHANGED <<images, prefix, suffix, maxChars, negativeFilters, pc, i, calls, stream>>
    /\ UNCHANGED <<cancelled, read, tempCaptions, captions, error>>
    /\ UNCHANGED <<requestVars, submission, readerVars>>

NextClient == Next \/ ClientReadsCaption \/ ClientReadsError \/ ClientDone

\* what POST has returned: nothing yet
NoResponse == [status |-> 0, kind |-> "none", error |-> ""]

\* new Response(stream, { headers: { 'Content-Type': 'text/event-stream', ... } })
StreamResponse == [status |-> 200, kind |-> "stream", error |-> ""]

\* the state when start() is entered, the request's fields read
Started(imgs, p, x, m, filters) ==
    /\ images = imgs
    /\ prefix = p
    /\ suffix = x
    /\ maxChars = m
    /\ negativeFilters = filters
    /\ pc = "loop"
    /\ i = 1
    /\ calls = [k \in 1..Len(imgs) |-> 0]
    /\ stream = <<>>
    /\ cancelled = FALSE
    /\ clientPc = "reading"
    /\ read = 0
    /\ tempCaptions = <<>>
    /\ captions = <<>>
    /\ error = <<>>
    /\ archive = <<>>
    /\ formService = "ollama"
    /\ formApiKey = ""
    /\ envApiKey = ""
    /\ response = StreamResponse
    /\ submission = 1
    /\ downloadUrl = <<>>
    /\ received = 0
    /\ pending = <<>>
    /\ completeData = <<>>

(***************************************************************************)
(* Inputs                                                                  *)
(***************************************************************************)
\* commonMetaPhrases (src/lib/prompt-styles.ts)
commonMetaPhrases == <<
    <<"t","h","i","s"," ","i","m","a","g","e"," ","s","h","o","w","s">>,  \* this image shows
    <<"t","h","e"," ","i","m","a","g","e"," ","d","e","p","i","c","t","s">>,  \* the image depicts
    <<"t","h","i","s"," ","p","i","c","t","u","r","e"," ","s","h","o","w","s">>,  \* this picture shows
    <<"t","h","e"," ","p","i","c","t","u","r","e"," ","d","e","p","i","c","t","s">>,  \* the picture depicts
    <<"t","h","e"," ","p","h","o","t","o"," ","s","h","o","w","s">>,  \* the photo shows
    <<"t","h","i","s"," ","p","h","o","t","o"," ","s","h","o","w","s">>,  \* this photo shows
    <<"w","e"," ","c","a","n"," ","s","e","e">>,  \* we can see
    <<"y","o","u"," ","c","a","n"," ","s","e","e">>,  \* you can see
    <<"t","h","e","r","e"," ","i","s"," ","a">>,  \* there is a
    <<"t","h","e","r","e"," ","a","r","e">>,  \* there are
    <<"i","t"," ","a","p","p","e","a","r","s">>,  \* it appears
    <<"i","t"," ","s","e","e","m","s">>,  \* it seems
    <<"l","o","o","k","i","n","g"," ","a","t">>  \* looking at
>>

\* all strings over alphabet of length at most n
StringsUpTo(alphabet, n) == UNION {[1..k -> alphabet] : k \in 0..n}

\* an uploaded image and what generateText does for it: thrown is "none" (the
\* call resolves with text), "Error" (it rejects with an Error carrying
\* message) or "other" (it rejects with a value that is no Error)
Image(name, thrown, text, message) ==
    [name |-> name, thrown |-> thrown, text |-> text, message |-> message]

AnImageName == <<"a",".","p","n","g">>   \* "a.png"

TimeoutMessage == <<"t","i","m","e","o","u","t">>   \* "timeout"

\* images whose generateText call fails
FailingImages ==
    { Image(<<"c",".","t","a","r",".","g","z">>, "Error", <<>>, TimeoutMessage),   \* "c.tar.gz"
      Image(<<"d">>, "other", <<>>, <<>>) }               \* "d"

(* -------- the batch: up to MaxImages images, a few request settings ----- *)
MaxImages == 3

BatchImages ==
    { Image(AnImageName, "none", <<"A"," ","c","a","t",".">>, <<>>),   \* "A cat."
      Image(<<"a",".","j","p","g">>, "none", <<"T","h","e","r","e"," ","a","r","e"," ","t","w","o"," ","d","o","g","s",",","\n","B",".">>, <<>>),        \* "a.jpg", "There are two dogs,\nB."
      Image(<<"x","/",".","b",".","p","n","g">>, "none", <<>>, <<>>) }       \* "x/.b.png", ""
    \cup FailingImages

BatchPrefixes == { <<>>, <<"T","O","K">> }          \* "", "TOK"

BatchSuffixes == { <<"h","q">> }   \* "hq"

BatchMaxChars == { NoMaxChars, 10 }

BatchFilters == { <<>>, commonMetaPhrases }

Init ==
    \E imgs \in UNION {[1..n -> BatchImages] : n \in 0..MaxImages},
       p \in BatchPrefixes, x \in BatchSuffixes,
       m \in BatchMaxChars, filters \in BatchFilters :
        Started(imgs, p, x, m, filters)

Spec == Init /\ [][Next]_vars

(* -------- one image, every short raw caption: the caption pipeline ------ *)
MaxRawLen == 4

FormatAlphabet == {"a", "B", " ", "\n", ",", "."}

FormatPrefixes == { <<>>, <<" ", "P", ",">> }

FormatSuffixes == { <<>>, <<",", "S", " ">> }

FormatMaxChars == { NoMaxChars, 3 }

FormatFilters == { <<>>, << <<"a">> >>, << <<"a", " ", "b">> >> }

\* the scenarios the specification works through, as
\* <<raw caption, filters, prefix, suffix, maxChars>>
Scenarios ==
    { <<<<"T","h","i","s"," ","i","m","a","g","e"," ","s","h","o","w","s"," ","a"," ","c","a","t"," ","s","i","t","t","i","n","g"," ","o","n"," ","a"," ","m","a","t",".">>,   \* "This image shows a cat sitting on a mat."
        << <<"t","h","i","s"," ","i","m","a","g","e"," ","s","h","o","w","s">> >>, <<"T","O","K">>, <<"h","i","g","h"," ","q","u","a","l","i","t","y">>, NoMaxChars>>,   \* ["this image shows"], "TOK", "high quality"
      <<<<"t","h","e","r","e"," ","i","s"," ","a"," ","c","a","t",","," ","t","h","e","r","e","a","f","t","e","r">>,   \* "there is a cat, thereafter"
        << <<"t","h","e","r","e"," ","i","s"," ","a">> >>, <<>>, <<>>, NoMaxChars>>,     \* ["there is a"]
      <<<<"T","h","i","s"," ","i","s"," ","a"," ","C","a","t",".","\n","\n">>,   \* "This is a Cat.\n\n"
        <<>>, <<>>, <<>>, NoMaxChars>>,
      <<<<"a"," ","c","a","t">>,   \* "a cat"
        <<>>, <<>>, <<"h","i","g","h"," ","q","u","a","l","i","t","y">>, NoMaxChars>>,          \* suffix "high quality"
      <<<<"A"," ","\t","b","i","g","\n","\n","c","a","t"," ","s","i","t","s",".","\n">>,   \* "A \tbig\n\ncat sits.\n"
        <<>>, <<>>, <<>>, 8>>,
      <<<<"i","t"," ","t","h","e","r","e"," ","a","r","e"," ","a","p","p","e","a","r","s"," ","r","e","d">>,   \* "it there are appears red"
        << <<"t","h","e","r","e"," ","a","r","e">>, <<"i","t"," ","a","p","p","e","a","r","s">> >>,   \* ["there are", "it appears"]
        <<>>, <<>>, NoMaxChars>> }

InitFormat ==
    \/ \E text \in StringsUpTo(FormatAlphabet, MaxRawLen),
          p \in FormatPrefixes, x \in FormatSuffixes,
          m \in FormatMaxChars, filters \in FormatFilters :
           Started(<<Image(AnImageName, "none", text, <<>>)>>, p, x, m, filters)
    \/ \E sc \in Scenarios :
           Started(<<Image(AnImageName, "none", sc[1], <<>>)>>, sc[3], sc[4], sc[5], sc[2])
    \/ \E img \in FailingImages : Started(<<img>>, <<>>, <<>>, NoMaxChars, <<>>)

SpecFormat == InitFormat /\ [][Next]_vars

(* -------- one image, long captions of plain words: truncation ----------- *)
MaxTruncLen == 12

TruncAlphabet == {"a", " "}

TruncMaxChars == { 1, 2, 10, 11 }

InitTrunc ==
    \/ \E text \in StringsUpTo(TruncAlphabet, MaxTruncLen), m \in TruncMaxChars :
           Started(<<Image(AnImageName, "none", text, <<>>)>>, <<>>, <<>>, m, <<>>)
    \/ \E img \in FailingImages : Started(<<img>>, <<>>, <<>>, NoMaxChars, <<>>)

SpecTrunc == InitTrunc /\ [][Next]_vars

(* -------- one image, short captions of mixed case, letters in the -------- *)
(* -------- prefix and suffix                                       -------- *)
MaxShortLen == 3

ShortAlphabet == {"a", "B", " ", ",", "."}

ShortPrefixes == { <<>>, <<" ", "p", "Q", ",">> }     \* "", " pQ,"

ShortSuffixes == { <<>>, <<",", "S", "x", " ">> }     \* "", ",Sx "

ShortMaxChars == { NoMaxChars, 4 }

ShortFilters == { <<>>, << <<"a">> >>, << <<"b">> >> }

InitShort ==
    \/ \E text \in StringsUpTo(ShortAlphabet, MaxShortLen),
          p \in ShortPrefixes, x \in ShortSuffixes,
          m \in ShortMaxChars, filters \in ShortFilters :
           Started(<<Image(AnImageName, "none", text, <<>>)>>, p, x, m, filters)
    \/ \E img \in FailingImages : Started(<<img>>, <<>>, <<>>, NoMaxChars, <<>>)

SpecShort == InitShort /\ [][Next]_vars

(* -------- the batch with one request setting --------------------------- *)
\* every list of up to MaxImages images, no prefix, suffix or limit
InitPlain ==
    \E imgs \in UNION {[1..n -> BatchImages] : n \in 0..MaxImages} :
        Started(imgs, <<>>, <<>>, NoMaxChars, <<>>)

ClientPrefixes == { <<>>, <<"E","r","r","o","r",":">> }     \* "", "Error:"

\* every list of up to MaxImages images, with or without a prefix
InitClient ==
    \E imgs \in UNION {[1..n -> BatchImages] : n \in 0..MaxImages}, p \in ClientPrefixes :
        Started(imgs, p, <<>>, NoMaxChars, <<>>)

\* the batch and the form reading its stream
SpecClient == InitClient /\ [][NextClient]_vars

\* the batch and a consumer that may cancel the stream
SpecCancel == InitPlain /\ [][NextCancel]_vars

\* images with short captions
LiveImages ==
    { Image(AnImageName, "none", <<"A",".">>, <<>>),          \* "a.png", "A."
      Image(<<"b",".","p","n","g">>, "none", <<>>, <<>>) }    \* "b.png", ""
    \cup FailingImages

InitLive ==
    \E imgs \in UNION {[1..n -> LiveImages] : n \in 0..MaxImages} :
        Started(imgs, <<>>, <<>>, NoMaxChars, <<>>)

\* the batch where every step that can be taken is taken in the end: start()
\* runs on when its await settles, and every generateText call settles
SpecLive == InitLive /\ [][Next]_vars /\ WF_vars(Next)

(***************************************************************************)
(* Properties                                                              *)
(***************************************************************************)
\* image k's generateText call resolves with text
Succeeds(k) == images[k].thrown = "none"

\* the string formatCaption holds before its character limit stage, for image k
ComposedFor(k) ==
    Normalize(Composed(FilteredCaption(images[k].text, negativeFilters), prefix, suffix))

\* the events of images whose call resolved, among those enqueued so far
SuccessEvents == {k \in 1..Len(stream) : Succeeds(k)}

(* C1: for any list of N images and any subset of failing generation calls, *)
(* the stream carries exactly N events, the k-th with the filename of the   *)
(* k-th image, an "Error: <message>" marker for the failing images and the  *)
(* processed caption for the others; every image is attempted, also after a *)
(* failure.                                                                 *)
C1_OneEventPerImageInOrder ==
    /\ Len(stream) <= Len(images)
    /\ \A k \in 1..Len(stream) :
        /\ stream[k].filename = TxtFilename(images[k].name)
        /\ ~Succeeds(k) =>
              stream[k].caption = <<"E","r","r","o","r",":"," ">> \o ErrorMessage(images[k])
        /\ Succeeds(k) =>
              stream[k].caption =
                  ProcessCaption(images[k].text, negativeFilters, prefix, suffix, maxChars)
    /\ pc = "closed" =>
        /\ Len(stream) = Len(images)
        /\ \A k \in 1..Len(images) : calls[k] = 1

\* a closed batch of three images of which the second failed
C1_Witness ==
    /\ pc = "closed"
    /\ Len(images) = 3
    /\ Len(stream) = 3
    /\ Succeeds(1) /\ ~Succeeds(2) /\ Succeeds(3)
    /\ StartsWith(stream[2].caption, <<"E","r","r","o","r",":"," ">>)
    /\ stream[3].caption # <<>>

\* raw is phrase, a space, and a clause: words that start with a letter, are
\* already clean of extra spaces and commas, hold no further occurrence of
\* the phrase and end in a period
PhraseThenClause(raw, phrase) ==
    /\ Len(raw) > Len(phrase) + 2
    /\ \A k \in 1..Len(phrase) : ToLowerCase(raw[k]) = ToLowerCase(phrase[k])
    /\ raw[Len(phrase) + 1] = " "
    /\ LET clause == SubSeq(raw, Len(phrase) + 2, Len(raw))
       IN  /\ IsWordChar(clause[1])
           /\ clause[Len(clause)] = "."
           /\ Normalize(clause) = clause
           /\ CollapseCommas(clause) = clause
           /\ ~\E k \in 1..Len(clause) : PhraseMatchesAt(clause, phrase, k)

ClauseOf(raw, phrase) == SubSeq(raw, Len(phrase) + 2, Len(raw))

(* C2: a raw caption made of a configured filter phrase followed by a clause *)
(* ending in a period, with a non-empty prefix P and suffix S (as trimmed    *)
(* and freed of their adjacent comma) and no maxChars, comes out as          *)
(* "P, <clause, first letter lowercased, final period removed>, S".          *)
C2_PhraseClausePrefixSuffix ==
    \A k \in SuccessEvents :
        ( /\ maxChars = NoMaxChars
          /\ Len(negativeFilters) = 1
          /\ TrimmedPrefix(prefix) # <<>>
          /\ TrimmedSuffix(suffix) # <<>>
          /\ PhraseThenClause(images[k].text, negativeFilters[1]) )
        => LET clause == ClauseOf(images[k].text, negativeFilters[1])
               lowered == <<ToLowerCase(clause[1])>> \o SubSeq(clause, 2, Len(clause) - 1)
           IN  stream[k].caption =
                   TrimmedPrefix(prefix) \o <<",", " ">> \o lowered
                       \o <<",", " ">> \o TrimmedSuffix(suffix)

\* the scenario of the specification has been emitted
C2_Witness ==
    /\ Len(stream) = 1
    /\ Succeeds(1)
    /\ images[1].text = <<"T","h","i","s"," ","i","m","a","g","e"," ","s","h","o","w","s"," ","a"," ","c","a","t"," ","s","i","t","t","i","n","g"," ","o","n"," ","a"," ","m","a","t",".">>
    /\ prefix = <<"T","O","K">>
    /\ PhraseThenClause(images[1].text, negativeFilters[1])
    /\ stream[1].caption = <<"T","O","K",","," ","a"," ","c","a","t"," ","s","i","t","t","i","n","g"," ","o","n"," ","a"," ","m","a","t",","," ","h","i","g","h"," ","q","u","a","l","i","t","y">>

(* C3: whenever maxChars is a positive integer, every caption emitted by    *)
(* the pipeline has at most maxChars characters.                            *)
C3_WithinMaxChars ==
    maxChars > 0 => \A k \in SuccessEvents : Len(stream[k].caption) <= maxChars

\* a caption that was over the limit and has been cut to exactly maxChars
C3_Witness ==
    /\ maxChars > 0
    /\ \E k \in SuccessEvents :
        /\ Len(ComposedFor(k)) > maxChars
        /\ Len(stream[k].caption) = maxChars

\* the hard cut of image k's composed string: its first maxChars characters
\* with trailing whitespace trimmed
HardCutFor(k) == Trim(Substring0(ComposedFor(k), maxChars))

\* the index (0-based) of the last space of the hard cut, -1 if it has none
LastSpaceFor(k) == LastIndexOfSpace(HardCutFor(k))

\* image k's composed string is longer than a configured maxChars
TooLong(k) == maxChars > 0 /\ Len(ComposedFor(k)) > maxChars

(* C4: when the composed string is longer than maxChars and the last space  *)
(* of the hard cut lies at an index p of at least 80% of maxChars (p equal  *)
(* to 0.8 x maxChars included), the result is the hard cut cut again at p,  *)
(* trailing whitespace trimmed.                                             *)
C4_WordCutFromEightyPercent ==
    \A k \in SuccessEvents :
        (TooLong(k) /\ LastSpaceFor(k) * 10 >= maxChars * 8)
        => stream[k].caption = Trim(Substring0(HardCutFor(k), LastSpaceFor(k)))

(* C5: when the composed string is longer than maxChars and the last space  *)
(* of the hard cut lies below 80% of maxChars, or there is none, the result *)
(* is exactly the hard cut and never the shorter word-boundary cut.         *)
C5_HardCutBelowEightyPercent ==
    \A k \in SuccessEvents :
        (TooLong(k) /\ LastSpaceFor(k) * 10 < maxChars * 8)
        => /\ stream[k].caption = HardCutFor(k)
           /\ LastSpaceFor(k) >= 0 =>
                 stream[k].caption # Trim(Substring0(HardCutFor(k), LastSpaceFor(k)))

\* a caption cut in the middle of a word although the hard cut holds a space
C5_Witness ==
    \E k \in SuccessEvents :
        /\ TooLong(k)
        /\ LastSpaceFor(k) >= 0
        /\ LastSpaceFor(k) * 10 < maxChars * 8
        /\ Len(stream[k].caption) = maxChars
        /\ stream[k].caption = HardCutFor(k)

(* C6: truncation leaves every composed string of at most maxChars          *)
(* characters as it is, and applied a second time with the same maxChars to *)
(* its own output it returns that output unchanged.                         *)
C6_TruncationNoOpUnderBudget ==
    \A k \in SuccessEvents :
        /\ Len(ComposedFor(k)) <= maxChars => stream[k].caption = ComposedFor(k)
        /\ Truncate(stream[k].caption, maxChars) = stream[k].caption

\* a composed string of exactly maxChars characters with a late space came
\* out whole
C6_Witness ==
    \E k \in SuccessEvents :
        /\ maxChars > 0
        /\ Len(ComposedFor(k)) = maxChars
        /\ LastIndexOfSpace(ComposedFor(k)) * 10 > maxChars * 8
        /\ stream[k].caption = ComposedFor(k)

\* the caption body formatCaption places between prefix and suffix, for image k
BodyFor(k) == CaptionBody(FilteredCaption(images[k].text, negativeFilters))

(* C7: for every non-empty caption body the composed string is              *)
(* [prefix + ", "] + body + [", " + suffix], each bracketed part present    *)
(* exactly when that side is non-empty after trimming and removing its      *)
(* adjacent comma; so with an empty prefix the output does not start with   *)
(* ", ", with an empty suffix it does not end with ", ", and the output     *)
(* never holds ", , ".                                                      *)
C7_NoOrphanSeparators ==
    \A k \in SuccessEvents :
        BodyFor(k) # <<>> =>
            /\ Composed(FilteredCaption(images[k].text, negativeFilters), prefix, suffix) =
                   (IF TrimmedPrefix(prefix) # <<>>
                      THEN TrimmedPrefix(prefix) \o <<",", " ">> ELSE <<>>)
                   \o BodyFor(k)
                   \o (IF TrimmedSuffix(suffix) # <<>>
                         THEN <<",", " ">> \o TrimmedSuffix(suffix) ELSE <<>>)
            /\ TrimmedPrefix(prefix) = <<>> => ~StartsWith(stream[k].caption, <<",", " ">>)
            /\ TrimmedSuffix(suffix) = <<>> => ~EndsWith(stream[k].caption, <<",", " ">>)
            /\ ~Includes(stream[k].caption, <<",", " ", ",", " ">>)

\* phrase occurs in s at index k, case-insensitively, with no word character
\* next to it on either side
WholeWordAt(s, phrase, k) ==
    /\ k + Len(phrase) - 1 <= Len(s)
    /\ \A m \in 1..Len(phrase) : ToLowerCase(s[k + m - 1]) = ToLowerCase(phrase[m])
    /\ k = 1 \/ ~IsWordChar(s[k - 1])
    /\ k + Len(phrase) > Len(s) \/ ~IsWordChar(s[k + Len(phrase)])

\* the indices of s that lie in a whole-word occurrence of phrase
OccurrenceChars(s, phrase) ==
    {j \in 1..Len(s) :
        \E k \in 1..Len(s) : WholeWordAt(s, phrase, k) /\ k <= j /\ j < k + Len(phrase)}

\* s without its whole-word occurrences of phrase
WithoutOccurrences(s, phrase) == Pick(s, (1..Len(s)) \ OccurrenceChars(s, phrase))

(* C8: filtering deletes every case-insensitive occurrence of a filter      *)
(* phrase that is delimited by word boundaries on both sides and nothing    *)
(* else: text in which the phrase occurs only inside a longer word is left  *)
(* as it is, and the emitted caption is the one built from the text without *)
(* those occurrences.                                                       *)
C8_WholeWordFiltering ==
    \A k \in 1..Len(images) :
        Succeeds(k) =>
            /\ \A f \in 1..Len(negativeFilters) :
                   RemovePhrase(images[k].text, negativeFilters[f]) =
                       WithoutOccurrences(images[k].text, negativeFilters[f])
            /\ (k <= Len(stream) /\ Len(negativeFilters) = 1) =>
                   stream[k].caption =
                       formatCaption(
                           Capitalize(CleanUp(Trim(
                               WithoutOccurrences(images[k].text, negativeFilters[1])))),
                           prefix, suffix, maxChars)

\* "there is a" filtered from "there is a cat, thereafter": the phrase and the
\* space after it are gone, "thereafter" is kept
C8_Witness ==
    /\ Len(stream) = 1
    /\ Succeeds(1)
    /\ images[1].text = <<"t","h","e","r","e"," ","i","s"," ","a"," ","c","a","t",","," ","t","h","e","r","e","a","f","t","e","r">>
    /\ negativeFilters = << <<"t","h","e","r","e"," ","i","s"," ","a">> >>
    /\ OccurrenceChars(images[1].text, negativeFilters[1]) = 1..10
    /\ stream[1].caption = <<"c","a","t",","," ","t","h","e","r","e","a","f","t","e","r">>

(* C9: with no filters, prefix, suffix and maxChars the result is the raw   *)
(* caption with its first character lowercased, one trailing period         *)
(* stripped (also when newlines or spaces follow the period), whitespace    *)
(* collapsed and trimmed, and the first character uppercased.               *)
C9_PlainRoundTrip ==
    \A k \in SuccessEvents :
        ( /\ negativeFilters = <<>>
          /\ Trim(prefix) = <<>>
          /\ Trim(suffix) = <<>>
          /\ maxChars = NoMaxChars )
        => stream[k].caption =
               UpperFirst(StripTrailingPeriod(
                   Trim(CollapseSpaces(NewlinesToSpaces(LowerFirst(images[k].text))))))

\* no character of s is a newline and no two neighbours are both whitespace
SingleSpaced(s) ==
    /\ \A j \in 1..Len(s) : s[j] # "\n"
    /\ \A j \in 1..(Len(s) - 1) : ~(IsSpace(s[j]) /\ IsSpace(s[j + 1]))

(* C10: for every raw caption, prefix, suffix and maxChars the emitted      *)
(* caption holds no newline and no two consecutive whitespace characters,   *)
(* also after truncation.                                                   *)
C10_NoNewlineNoSpaceRuns ==
    \A k \in SuccessEvents : SingleSpaced(stream[k].caption)

\* a raw caption with a newline and a whitespace run, truncated, came out
\* with a space in it
C10_Witness ==
    \E k \in SuccessEvents :
        /\ TooLong(k)
        /\ \E j \in 1..(Len(images[k].text) - 1) :
               /\ images[k].text[j] = "\n"
               /\ IsSpace(images[k].text[j + 1])
               /\ j > 1 /\ ~IsSpace(images[k].text[j - 1])
        /\ \E j \in 1..Len(stream[k].caption) : stream[k].caption[j] = " "

(* C11: for every raw caption and every configuration the emitted caption   *)
(* neither begins nor ends with a comma or a space, also when no filter is  *)
(* configured and after truncation.                                         *)
C11_NoEdgeCommaOrSpace ==
    \A k \in SuccessEvents :
        LET c == stream[k].caption
        IN  c # <<>> => /\ c[1] \notin {",", " "}
                        /\ c[Len(c)] \notin {",", " "}

(* C12: for every raw caption and every configuration a non-empty emitted   *)
(* caption starts with an uppercase character (its first character is not   *)
(* a lowercase letter).                                                     *)
C12_FirstCharacterUppercase ==
    \A k \in SuccessEvents :
        LET c == stream[k].caption
        IN  c # <<>> => ToUpperCase(c[1]) = c[1]

\* the text handed to formatCaption, the normalized text of image k
NormalizedFor(k) == FilteredCaption(images[k].text, negativeFilters)

(* C20: for every raw caption and every configuration the normalized text   *)
(* holds no two consecutive commas: every run of commas, of any length,     *)
(* has become one comma.                                                    *)
C20_CommaRunsCollapsed ==
    \A k \in SuccessEvents :
        \A j \in 1..(Len(NormalizedFor(k)) - 1) :
            ~(NormalizedFor(k)[j] = "," /\ NormalizedFor(k)[j + 1] = ",")

(* C13: after a batch with failed and successful images the consumer shows  *)
(* the processed caption of every successful image and the error of every   *)
(* failed image; an error marker does not stop it from reading the events   *)
(* of later images.                                                         *)
C13_ConsumerShowsEveryResult ==
    (pc = "closed" /\ clientPc # "reading") =>
        /\ read = Len(stream)
        /\ \A k \in 1..Len(images) :
            /\ Succeeds(k) =>
                  \E j \in 1..Len(captions) :
                      captions[j] = Caption(stream[k].filename, stream[k].caption)
            /\ ~Succeeds(k) => error = <<ErrorMessage(images[k])>>

(* C18: once the consumer has cancelled the stream no generation call is    *)
(* started and no event is enqueued: the loop stops at the iteration        *)
(* boundary.                                                                *)
C18_LoopStopsOnCancel ==
    [][cancelled => (calls' = calls /\ stream' = stream)]_vars

\* the (filename, caption) pairs of the successful images, in stream order
SuccessfulPairs ==
    LET idx == SelectSeq([k \in 1..Len(stream) |-> k], LAMBDA k : Succeeds(k))
    IN  [j \in 1..Len(idx) |-> Caption(stream[idx[j]].filename, stream[idx[j]].caption)]

(* C19: when the stream has ended the archive builder has been invoked      *)
(* exactly once, with the successful (filename, caption) pairs in their     *)
(* order; failed images are left out and do not keep the archive from       *)
(* being built.                                                             *)
C19_ArchiveBuiltOnceFromSuccesses ==
    /\ Len(archive) <= 1
    /\ (pc = "closed" /\ clientPc # "reading") => archive = <<SuccessfulPairs>>

\* name is dir, stem, ext in a row, where dir is empty or ends with the last
\* "/", and ext is the final extension: empty, or the last "." of the base
\* (not its first character) with what follows it
SplitsAs(name, stem) ==
    \E d \in 0..Len(name), e \in 0..Len(name) :
        /\ d <= e
        /\ stem = SubSeq(name, d + 1, e)
        /\ d > 0 => name[d] = "/"
        /\ \A k \in (d + 1)..Len(name) : name[k] # "/"
        /\ e < Len(name) =>
              /\ name[e + 1] = "."
              /\ e > d
              /\ \A k \in (e + 2)..Len(name) : name[k] # "."
        /\ e = Len(name) => \A k \in (d + 2)..Len(name) : name[k] # "."

(* C14: for every image, whether its generation call succeeded or failed,   *)
(* the filename of its event is the image's name without directory and      *)
(* without its final extension, followed by ".txt".                         *)
C14_FilenameIsBaseNameTxt ==
    \A k \in 1..Len(stream) :
        \E stem \in {SubSeq(images[k].name, a, b) :
                        a \in 1..(Len(images[k].name) + 1), b \in 0..Len(images[k].name)} :
            /\ SplitsAs(images[k].name, stem)
            /\ stream[k].filename = stem \o <<".","t","x","t">>

\* "x/.b.png" succeeded as ".b.txt" and "c.tar.gz" failed as "c.tar.txt"
C14_Witness ==
    \E k, f \in 1..Len(stream) :
        /\ Succeeds(k)
        /\ images[k].name = <<"x","/",".","b",".","p","n","g">>
        /\ stream[k].filename = <<".","b",".","t","x","t">>
        /\ ~Succeeds(f)
        /\ images[f].name = <<"c",".","t","a","r",".","g","z">>
        /\ stream[f].filename = <<"c",".","t","a","r",".","t","x","t">>

RECURSIVE CallsStarted(_)
\* the number of generateText calls started for the first n images
CallsStarted(n) == IF n = 0 THEN 0 ELSE calls[n] + CallsStarted(n - 1)

(* C15: at most one generation call is in flight: the calls started exceed  *)
(* the events enqueued by at most one, and the call of image k + 1 is not   *)
(* started before the event of image k is on the stream.                    *)
C15_OneCallInFlight ==
    /\ CallsStarted(Len(images)) - Len(stream) \in {0, 1}
    /\ \A k \in 1..(Len(images) - 1) : calls[k + 1] > 0 => Len(stream) >= k

\* the call of the second image is in flight, the first image's event is
\* enqueued and the third image's call is not started
C15_Witness ==
    /\ Len(images) = 3
    /\ pc = "awaiting"
    /\ i = 2
    /\ Len(stream) = 1
    /\ calls = <<1, 1, 0>>

(* C16: every image goes from pending to succeeded or failed once and stays *)
(* there: its call is started at most once and exactly once before its      *)
(* event, its event is an error marker exactly when the call failed and     *)
(* never changes, and no event beyond one per image is enqueued.            *)
C16_PendingToTerminalOnce ==
    [][/\ Len(stream') <= Len(images)
       /\ \A k \in 1..Len(images) :
            /\ calls[k] <= calls'[k]
            /\ calls'[k] <= 1
            /\ k <= Len(stream) => (k <= Len(stream') /\ stream'[k] = stream[k])
            /\ k <= Len(stream') =>
                  /\ calls'[k] = 1
                  /\ IsErrorMarker(stream'[k].caption) <=> ~Succeeds(k)
       /\ pc' = "closed" => \A k \in 1..Len(images) : calls'[k] = 1 /\ k <= Len(stream')
      ]_vars

\* a closed batch whose first two images failed, each called once
C16_Witness ==
    /\ pc = "closed"
    /\ Len(images) = 3
    /\ ~Succeeds(1) /\ ~Succeeds(2) /\ Succeeds(3)
    /\ calls = <<1, 1, 1>>
    /\ Len(stream) = 3
    /\ IsErrorMarker(stream[1].caption) /\ IsErrorMarker(stream[2].caption)
    /\ ~IsErrorMarker(stream[3].caption)

(* C17: when every generation call settles, the stream is closed in the    *)
(* end, once and after the event of the last image (nothing is enqueued or  *)
(* closed after that); start() is never left by an exception, and every     *)
(* failed call shows as an error marker event.                              *)
C17_ClosedOnceAfterLastEvent ==
    /\ <>(pc = "closed" /\ Len(stream) = Len(images))
    /\ [][/\ pc # "closed"
          /\ pc' # "thrown"
          /\ pc' = "closed" => (stream' = stream /\ Len(stream) = Len(images))]_vars
    /\ [](\A k \in 1..Len(stream) : ~Succeeds(k) => stream[k] = ErrorEvent(images[k]))

\* a closed batch of three images whose last generation call failed
C17_Witness ==
    /\ pc = "closed"
    /\ Len(images) = 3
    /\ Succeeds(1) /\ ~Succeeds(3)
    /\ Len(stream) = 3
    /\ stream[3] = ErrorEvent(images[3])

\* phrase occurs somewhere in s as a whole word, case-insensitively
HoldsPhrase(s, phrase) == \E j \in 1..Len(s) : WholeWordAt(s, phrase, j)

(* C23: with filters configured, neither the text returned by               *)
(* applyNegativeFilters nor the emitted caption holds a case-insensitive    *)
(* whole-word occurrence of a filter phrase, also not one that comes into   *)
(* being when another phrase is deleted or whitespace is collapsed.         *)
C23_NoFilterPhraseSurvives ==
    \A k \in SuccessEvents :
        \A f \in 1..Len(negativeFilters) :
            /\ ~HoldsPhrase(applyNegativeFilters(images[k].text, negativeFilters),
                            negativeFilters[f])
            /\ ~HoldsPhrase(stream[k].caption, negativeFilters[f])

(* C26: within one batch, images with distinct names have events with       *)
(* distinct filenames.                                                      *)
C26_DistinctNamesDistinctFilenames ==
    \A j, k \in 1..Len(stream) :
        images[j].name # images[k].name => stream[j].filename # stream[k].filename

(* C28: when the caption body is empty or whitespace only and a prefix or   *)
(* suffix is configured (and no character limit), the emitted caption is    *)
(* exactly the trimmed prefix, the trimmed suffix, or "prefix, suffix".     *)
C28_EmptyBodyPrefixSuffixOnly ==
    \A k \in SuccessEvents :
        LET tp == TrimmedPrefix(prefix)
            ts == TrimmedSuffix(suffix)
        IN  (/\ Trim(BodyFor(k)) = <<>>
             /\ maxChars = NoMaxChars
             /\ tp # <<>> \/ ts # <<>>) =>
                stream[k].caption =
                    IF tp # <<>> /\ ts # <<>> THEN tp \o <<",", " ">> \o ts
                    ELSE IF tp # <<>> THEN tp ELSE ts

(* C27: when the composed string is longer than a maxChars of at least 1,   *)
(* the emitted caption is a non-empty prefix of the composed string and     *)
(* does not end in whitespace.                                              *)
C27_TruncationNonEmptyPrefix ==
    \A k \in SuccessEvents :
        (TooLong(k) /\ maxChars >= 1) =>
            LET c == stream[k].caption
            IN  /\ c # <<>>
                /\ Len(c) <= Len(ComposedFor(k))
                /\ c = SubSeq(ComposedFor(k), 1, Len(c))
                /\ ~IsSpace(c[Len(c)])

\* "a a" cut with maxChars 2: the hard cut "a " is trimmed to "a"
C27_Witness ==
    \E k \in SuccessEvents :
        /\ TooLong(k)
        /\ maxChars = 2
        /\ ComposedFor(k) = <<"a", " ", "a">>
        /\ stream[k].caption = <<"a">>

\* image k's raw caption is empty, or filtering leaves nothing of it
EmptiedCaption(k) ==
    \/ images[k].text = <<>>
    \/ /\ Len(negativeFilters) > 0
       /\ applyNegativeFilters(images[k].text, negativeFilters) = <<>>

CaseKeptFor(k) ==
    LET cleaned == IF Len(negativeFilters) > 0
                   THEN CleanUp(RemovePhrases(images[k].text, negativeFilters, 1))
                   ELSE images[k].text
    IN  Truncate(Normalize(PrefixPart(prefix) \o StripTrailingPeriod(cleaned)
                               \o SuffixPart(suffix)),
                 maxChars)

\* where the caption body starts in the composed string
BodyStart == IF TrimmedPrefix(prefix) = <<>> THEN 1 ELSE Len(Normalize(TrimmedPrefix(prefix))) + 3

(* C22: the pipeline changes letter case at the first character of the      *)
(* caption body only: the emitted caption is the one built without any case *)
(* change, except that this one character is lowercased; every other        *)
(* character of the raw caption, the prefix and the suffix keeps its case.  *)
C22_CaseChangedAtBodyStartOnly ==
    \A k \in SuccessEvents :
        LET c == stream[k].caption
            r == CaseKeptFor(k)
        IN  /\ Len(c) = Len(r)
            /\ \A j \in 1..Len(c) :
                   c[j] # r[j] => (j = BodyStart /\ c[j] = ToLowerCase(r[j]))

\* "B B" with prefix " pQ," and suffix ",Sx ": only the body's first letter
\* was lowercased
C22_Witness ==
    /\ Len(stream) = 1
    /\ Succeeds(1)
    /\ images[1].text = <<"B", " ", "B">>
    /\ stream[1].caption = <<"p","Q",","," ","b"," ","B",","," ","S","x">>

(* C25: the consumer takes an event for a failure exactly when the          *)
(* generation call of its image failed: it stops with an error only on the  *)
(* event of a failed image, and never reads past one.                       *)
C25_FailureIffCallFailed ==
    /\ clientPc = "returned" => ~Succeeds(read)
    /\ \A k \in 1..read : ~Succeeds(k) => (clientPc = "returned" /\ k = read)

(***************************************************************************)
(* POST before the stream: the choice of the client                        *)
(***************************************************************************)
\* (formData.get('service') as string) || 'openai'
Service(fs) == IF fs = "" THEN "openai" ELSE fs

\* (formData.get('apiKey') as string) || process.env['OPENAI_API_KEY']
ApiKey(fk, ek) == IF fk # "" THEN fk ELSE ek

\* (mutant) the key is asked for whatever the service
NeedsApiKeyAlways(svc) == TRUE

\* if (service === 'ollama') createOllama, else the key is tested
NeedsApiKey(svc) == svc # "ollama"

\* new Response(JSON.stringify({ error: 'OpenAI API key is required' }), { status: 400, ... })
KeyRequiredResponse ==
    [status |-> 400, kind |-> "json", error |-> "OpenAI API key is required"]

\* POST from its entry to its return: the fields are read, the client is
\* chosen, and either the 400 Response is returned or the ReadableStream is
\* built (its start() runs up to its first await) and returned
SelectClient ==
    /\ pc = "received"
    /\ IF NeedsApiKey(Service(formService)) /\ ApiKey(formApiKey, envApiKey) = ""
       THEN /\ response' = KeyRequiredResponse
            /\ pc' = "refused"
       ELSE /\ response' = StreamResponse
            /\ pc' = "loop"
    /\ UNCHANGED <<images, prefix, suffix, maxChars, negativeFilters, i, calls, stream>>
    /\ UNCHANGED <<cancelled, clientVars>>
    /\ UNCHANGED <<formService, formApiKey, envApiKey, tabVars, readerVars>>

NextRequest == SelectClient \/ Next

\* the state when POST is entered
Received(imgs, fs, fk, ek) ==
    /\ images = imgs
    /\ prefix = <<>>
    /\ suffix = <<>>
    /\ maxChars = NoMaxChars
    /\ negativeFilters = <<>>
    /\ pc = "received"
    /\ i = 1
    /\ calls = [k \in 1..Len(imgs) |-> 0]
    /\ stream = <<>>
    /\ cancelled = FALSE
    /\ clientPc = "reading"
    /\ read = 0
    /\ tempCaptions = <<>>
    /\ captions = <<>>
    /\ error = <<>>
    /\ archive = <<>>
    /\ formService = fs
    /\ formApiKey = fk
    /\ envApiKey = ek
    /\ response = NoResponse
    /\ submission = 1
    /\ downloadUrl = <<>>
    /\ received = 0
    /\ pending = <<>>
    /\ completeData = <<>>

MaxRequestImages == 2

FormServices == { "", "openai", "ollama", "OLLAMA" }

FormApiKeys == { "", "sk-form" }

EnvApiKeys == { "", "sk-env" }

InitRequest ==
    \E imgs \in UNION {[1..n -> LiveImages] : n \in 0..MaxRequestImages},
       fs \in FormServices, fk \in FormApiKeys, ek \in EnvApiKeys :
        Received(imgs, fs, fk, ek)

\* POST from its entry
SpecRequest == InitRequest /\ [][NextRequest]_vars

(* C30: once POST has returned, a request for OpenAI (the service field     *)
(* absent or 'openai') with no key in the form and none in the environment  *)
(* has got status 400 with an error body and no stream, nothing was         *)
(* enqueued and no generation call was started; a request for 'ollama' has  *)
(* got the stream, with or without a key.                                   *)
C30_MissingKeyRefusedOllamaNever ==
    pc # "received" =>
        /\ (formService \in {"", "openai"} /\ formApiKey = "" /\ envApiKey = "") =>
               /\ response.status = 400
               /\ response.error # ""
               /\ response.kind # "stream"
               /\ pc = "refused"
               /\ stream = <<>>
               /\ \A k \in DOMAIN calls : calls[k] = 0
        /\ formService = "ollama" =>
               /\ response = StreamResponse
               /\ pc # "refused"

C30_Witness ==
    \/ /\ pc = "refused"
       /\ formService = "openai" /\ formApiKey = "" /\ envApiKey = ""
       /\ Len(images) = 2
    \/ /\ pc = "closed"
       /\ formService = "ollama" /\ formApiKey = "" /\ envApiKey = ""
       /\ Len(stream) = 2

(***************************************************************************)
(* One tab of ImageCaptionerClient over several submissions                *)
(***************************************************************************)
MaxSubmissions == 2

MaxResubmitImages == 2

ResubmitImages ==
    { Image(AnImageName, "none", <<"A",".">>, <<>>),          \* "a.png", "A."
      Image(<<"d">>, "other", <<>>, <<>>) }                   \* "d", a failing call

\* handleSubmit returns at once when data.images.length === 0
ResubmitBatches == UNION {[1..n -> ResubmitImages] : n \in 1..MaxResubmitImages}

\* handleSubmit is run again in the same tab (the button is enabled when
\* loading is false): setLoading(true), setCaptionCount(0), a new request and
\* a new tempCaptions. Nothing in it touches the parent's captions,
\* downloadUrl or error.
Resubmit ==
    /\ clientPc \in {"submitted", "returned", "idle"}
    /\ submission < MaxSubmissions
    /\ \E imgs \in ResubmitBatches :
           /\ images' = imgs
           /\ calls' = [k \in 1..Len(imgs) |-> 0]
    /\ pc' = "loop"
    /\ i' = 1
    /\ stream' = <<>>
    /\ cancelled' = FALSE
    /\ clientPc' = "reading"
    /\ read' = 0
    /\ tempCaptions' = <<>>
    /\ submission' = submission + 1
    /\ received' = 0
    /\ pending' = <<>>
    /\ completeData' = <<>>
    /\ UNCHANGED <<prefix, suffix, maxChars, negativeFilters, requestVars>>
    /\ UNCHANGED <<captions, error, archive, downloadUrl>>

\* handleTabChange, with no submission running: setCaptions([]),
\* setDownloadUrl(null), setError(null); the other tab's form is mounted
TabChange ==
    /\ clientPc \in {"submitted", "returned"}
    /\ captions' = <<>>
    /\ downloadUrl' = <<>>
    /\ error' = <<>>
    /\ clientPc' = "idle"
    /\ tempCaptions' = <<>>
    /\ read' = 0
    /\ UNCHANGED <<images, prefix, suffix, maxChars, negativeFilters, pc, i, calls, stream>>
    /\ UNCHANGED <<cancelled, archive, requestVars, submission, readerVars>>

NextTab == NextClient \/ Resubmit \/ TabChange

InitTab == \E imgs \in ResubmitBatches : Started(imgs, <<>>, <<>>, NoMaxChars, <<>>)

\* the submissions made in one tab, one after the other
SpecTab == InitTab /\ [][NextTab]_vars

(* C29: when a submission has ended, the captions on display are exactly    *)
(* the captions that submission delivered, in arrival order, and a download *)
(* link on display holds the archive of that submission.                    *)
C29_DisplayIsLatestBatch ==
    clientPc \in {"submitted", "returned"} =>
        /\ captions = tempCaptions
        /\ downloadUrl # <<>> => downloadUrl[1] = submission

(***************************************************************************)
(* The bytes of the event stream and handleSubmit's reader                 *)
(***************************************************************************)
\* The character U+00E9 is written "U+E9"; its UTF-8 bytes are "xC3" "xA9".
\* Every other character of the model is ASCII and is its own byte.
RECURSIVE ConcatRange(_, _, _)
\* the sequences seqs[lo], ..., seqs[hi] one after the other
ConcatRange(seqs, lo, hi) ==
    IF lo > hi THEN <<>>
    ELSE IF lo = hi THEN seqs[lo]
    ELSE LET mid == (lo + hi) \div 2
         IN  ConcatRange(seqs, lo, mid) \o ConcatRange(seqs, mid + 1, hi)

Concat(seqs) == ConcatRange(seqs, 1, Len(seqs))

\* the bytes a string is sent as
Utf8(s) ==
    Concat([k \in 1..Len(s) |-> IF s[k] = "U+E9" THEN <<"xC3", "xA9">> ELSE <<s[k]>>])

\* what the decoder makes of the byte at position k: the two-byte character
\* at its lead byte and nothing at its second byte, nothing yet for a lead
\* byte at the end, U+FFFD for a byte that is out of place
DecodedAt(bytes, k) ==
    IF bytes[k] = "xC3"
    THEN IF k = Len(bytes) THEN <<>>
         ELSE IF bytes[k + 1] = "xA9" THEN <<"U+E9">> ELSE <<"U+FFFD">>
    ELSE IF bytes[k] = "xA9"
         THEN IF k > 1 /\ bytes[k - 1] = "xC3" THEN <<>> ELSE <<"U+FFFD">>
    ELSE <<bytes[k]>>

\* the decoder's output for the bytes it holds and is given: the text, and
\* the lead byte of an incomplete character held back for the next call
DecodeBytes(bytes) ==
    [text |-> Concat([k \in 1..Len(bytes) |-> DecodedAt(bytes, k)]),
     pending |-> IF bytes # <<>> /\ bytes[Len(bytes)] = "xC3" THEN <<"xC3">> ELSE <<>>]

\* decoder.decode(value, { stream: true }), the decoder holding held
Decode(held, value) == DecodeBytes(held \o value)

\* the escape JSON.stringify writes for a character of a string
JsonEscape(c) ==
    IF c = "\"" THEN <<"\\", "\"">>
    ELSE IF c = "\\" THEN <<"\\", "\\">>
    ELSE IF c = "\n" THEN <<"\\", "n">>
    ELSE IF c = "\r" THEN <<"\\", "r">>
    ELSE IF c = "\t" THEN <<"\\", "t">>
    ELSE <<c>>

\* JSON.stringify of a string
JsonString(s) ==
    <<"\"">> \o Concat([k \in 1..Len(s) |-> JsonEscape(s[k])]) \o <<"\"">>

FilenameKey == <<"f","i","l","e","n","a","m","e">>   \* filename

CaptionKey == <<"c","a","p","t","i","o","n">>        \* caption

\* JSON.stringify({ filename, caption })
JsonStringify(event) ==
    <<"{">> \o JsonString(FilenameKey) \o <<":">> \o JsonString(event.filename)
    \o <<",">> \o JsonString(CaptionKey) \o <<":">> \o JsonString(event.caption)
    \o <<"}">>

DataPrefix == <<"d","a","t","a",":"," ">>   \* 'data: '

\* `data: ${JSON.stringify({ filename, caption })}\n\n`
Chunk(event) == DataPrefix \o JsonStringify(event) \o <<"\n", "\n">>

RECURSIVE Wire(_)
\* the bytes of the response body, the chunks of the stream one after the other
Wire(events) ==
    IF events = <<>> THEN <<>> ELSE Utf8(Chunk(Head(events))) \o Wire(Tail(events))

\* the character an escape of a JSON string stands for
JsonUnescape(c) ==
    IF c = "n" THEN "\n"
    ELSE IF c = "r" THEN "\r"
    ELSE IF c = "t" THEN "\t"
    ELSE c

\* a parsed string with one more character in front
WithChar(char, rest) ==
    [ok |-> rest.ok, value |-> <<char>> \o rest.value, next |-> rest.next]

RECURSIVE ParseString(_, _)
\* JSON.parse inside a string, from position k after its opening quote: the
\* value and the position after the closing quote; a raw line break or the
\* end of the text inside the string is a SyntaxError
ParseString(s, k) ==
    IF k > Len(s) \/ s[k] \in {"\n", "\r", "\t"} \/ (s[k] = "\\" /\ k = Len(s))
    THEN [ok |-> FALSE, value |-> <<>>, next |-> k]
    ELSE IF s[k] = "\"" THEN [ok |-> TRUE, value |-> <<>>, next |-> k + 1]
    ELSE IF s[k] = "\\" THEN WithChar(JsonUnescape(s[k + 1]), ParseString(s, k + 2))
    ELSE WithChar(s[k], ParseString(s, k + 1))

\* s holds the character c at position k
HasAt(s, k, c) == k <= Len(s) /\ s[k] = c

NoString == [ok |-> FALSE, value |-> <<>>, next |-> 1]

\* JSON.parse of a string that is to begin at position k, after what came
\* before it has been read (before is its parse, lead the character that
\* is to stand between the two)
StringAfter(s, before, lead) ==
    IF before.ok /\ HasAt(s, before.next, lead) /\ HasAt(s, before.next + 1, "\"")
    THEN ParseString(s, before.next + 2)
    ELSE NoString

\* the object of the members key1: val1 and key2: val2, if the text ends
\* with its closing brace
ParsedObject(s, key1, val1, key2, val2) ==
    IF val2.ok /\ HasAt(s, val2.next, "}") /\ val2.next = Len(s)
       /\ key1.value = FilenameKey /\ key2.value = CaptionKey
    THEN [ok |-> TRUE, filename |-> val1.value, caption |-> val2.value]
    ELSE [ok |-> FALSE, filename |-> <<>>, caption |-> <<>>]

ParseSecondValue(s, key1, val1, key2) ==
    ParsedObject(s, key1, val1, key2, StringAfter(s, key2, ":"))

ParseSecondKey(s, key1, val1) ==
    ParseSecondValue(s, key1, val1, StringAfter(s, val1, ","))

ParseFirstValue(s, key1) == ParseSecondKey(s, key1, StringAfter(s, key1, ":"))

\* const { filename, caption } = JSON.parse(text), for an object of two
\* string members; ok is FALSE where JSON.parse throws
JsonParse(s) ==
    ParseFirstValue(s, StringAfter(s, [ok |-> TRUE, value |-> <<>>, next |-> 1], "{"))

\* the least position of a set of positions
First(positions) == CHOOSE j \in positions : \A m \in positions : j <= m

RECURSIVE SplitFrom(_, _)
RECURSIVE SplitAt(_, _, _)
\* s.split('\n\n') from position k, found the positions of '\n\n' from k on
SplitAt(s, k, found) ==
    IF found = {} THEN <<SubSeq(s, k, Len(s))>>
    ELSE <<SubSeq(s, k, First(found) - 1)>> \o SplitFrom(s, First(found) + 2)

\* s.split('\n\n') from position k: the text up to the next '\n\n', then the
\* pieces after it
SplitFrom(s, k) ==
    SplitAt(s, k, {j \in k..(Len(s) - 1) : s[j] = "\n" /\ s[j + 1] = "\n"})

\* completeData.split('\n\n')
SplitBlankLines(s) == SplitFrom(s, 1)

\* (mutant) the unfinished piece is not kept for the next read
RemainderDropped(parts) == <<>>

\* lines.pop() || ''
Remainder(parts) == parts[Len(parts)]

\* lines after lines.pop()
CompleteLines(parts) == SubSeq(parts, 1, Len(parts) - 1)

\* line.startsWith('data: ')
IsDataLine(line) ==
    /\ Len(line) >= Len(DataPrefix)
    /\ SubSeq(line, 1, Len(DataPrefix)) = DataPrefix

\* 'An unexpected error occurred.'
UnexpectedErrorMessage == <<"A","n"," ","u","n","e","x","p","e","c","t","e","d"," ","e","r","r","o","r"," ","o","c","c","u","r","r","e","d",".">>

RECURSIVE HandleLines(_, _, _)
RECURSIVE HandleParsed(_, _, _, _)
\* the body of the loop for line k, parsed what JSON.parse made of it: an
\* exception of JSON.parse goes to the catch block of handleSubmit, an error
\* marker returns from it, a caption is pushed and sent to the parent
HandleParsed(lines, k, st, parsed) ==
    IF ~parsed.ok
    THEN [st EXCEPT !.clientPc = "caught", !.error = <<UnexpectedErrorMessage>>]
    ELSE IF IsErrorMarker(parsed.caption)
    THEN [st EXCEPT !.clientPc = "returned", !.read = @ + 1,
                    !.error = <<SubstringFrom(parsed.caption, 7)>>]
    ELSE HandleLines(lines, k + 1,
                     [st EXCEPT !.read = @ + 1,
                                !.tempCaptions = Append(@, Caption(parsed.filename, parsed.caption)),
                                !.captions = Append(@, Caption(parsed.filename, parsed.caption))])

\* for (const line of lines) { ... } from line k on; st holds clientPc, read,
\* tempCaptions, captions and error
HandleLines(lines, k, st) ==
    IF k > Len(lines) THEN st
    ELSE IF ~IsDataLine(lines[k]) THEN HandleLines(lines, k + 1, st)
    ELSE HandleParsed(lines, k, st, JsonParse(SubstringFrom(lines[k], 6)))

\* what one turn of the loop makes of the text in completeData with the
\* newly decoded text added, parts its pieces
TurnOnParts(st, parts) ==
    [after |-> HandleLines(CompleteLines(parts), 1, st), completeData |-> Remainder(parts)]

\* what one turn of the loop makes of the bytes it is handed, decoded what
\* the decoder gives for them
TurnOnDecoded(st, data, decoded) ==
    [pending |-> decoded.pending,
     turn |-> TurnOnParts(st, SplitBlankLines(data \o decoded.text))]

\* the state of handleSubmit and of the parent after one turn of the loop
SetTurn(n, result) ==
    /\ received' = received + n
    /\ pending' = result.pending
    /\ completeData' = result.turn.completeData
    /\ clientPc' = result.turn.after.clientPc
    /\ read' = result.turn.after.read
    /\ tempCaptions' = result.turn.after.tempCaptions
    /\ captions' = result.turn.after.captions
    /\ error' = result.turn.after.error

\* the turns of the loop on the next bytes of the body, cut anywhere
ReadSome(wire) ==
    \E n \in 1..(Len(wire) - received) :
        SetTurn(n, TurnOnDecoded([clientPc |-> clientPc, read |-> read,
                                  tempCaptions |-> tempCaptions,
                                  captions |-> captions, error |-> error],
                                 completeData,
                                 Decode(pending, SubSeq(wire, received + 1, received + n))))

\* one turn of while (true): reader.read() hands out the next bytes of the
\* body, cut anywhere; they are decoded, added to completeData, the text is
\* split, its last piece kept, and the complete lines handled
ReaderRead ==
    /\ clientPc = "reading"
    /\ ReadSome(Wire(stream))
    /\ UNCHANGED <<images, prefix, suffix, maxChars, negativeFilters, pc, i, calls, stream>>
    /\ UNCHANGED <<cancelled, archive, requestVars, tabVars>>

\* reader.read() reports done, the stream closed and all its bytes handed
\* out: break, then onSubmit(tempCaptions)
ReaderDone ==
    /\ clientPc = "reading"
    /\ pc = "closed"
    /\ received = Len(Wire(stream))
    /\ archive' = Append(archive, tempCaptions)
    /\ downloadUrl' = <<submission>>
    /\ clientPc' = "submitted"
    /\ UNCHANGED <<images, prefix, suffix, maxChars, negativeFilters, pc, i, calls, stream>>
    /\ UNCHANGED <<cancelled, read, tempCaptions, captions, error>>
    /\ UNCHANGED <<requestVars, submission, readerVars>>

NextReader == Next \/ ReaderRead \/ ReaderDone

MaxWireImages == 2

WireImages ==
    { Image(<<"U+E9",".","p","n","g">>, "none", <<"A","\"","\\","n">>, <<>>),   \* "é.png", "A\"\\n"
      Image(<<"c">>, "Error", <<>>, <<"\n","\n","x">>) }                      \* "c", fails with "\n\nx"

InitReader ==
    \E imgs \in UNION {[1..n -> WireImages] : n \in 0..MaxWireImages} :
        Started(imgs, <<>>, <<>>, NoMaxChars, <<>>)

\* the batch and the form reading the bytes of its stream
SpecReader == InitReader /\ [][NextReader]_vars

\* the position in the body at which chunk k ends
FrameEnd(k) == Len(Wire(SubSeq(stream, 1, k)))

\* the number of chunks the reader has been handed to the end
FramesReceived == Cardinality({k \in 1..Len(stream) : FrameEnd(k) <= received})

\* the first error marker among the first n events, 0 if there is none
FirstMarker(n) ==
    LET markers == {k \in 1..n : IsErrorMarker(stream[k].caption)}
    IN  IF markers = {} THEN 0 ELSE CHOOSE k \in markers : \A m \in markers : k <= m

\* the captions of the first n events
CaptionsOf(n) == [k \in 1..n |-> Caption(stream[k].filename, stream[k].caption)]

(* C24: wherever the reads cut the bytes of the body, the reader has         *)
(* delivered what a reader of whole events delivers from the events whose    *)
(* bytes have all arrived: each of them once and in order as a caption, up   *)
(* to the first error marker, which it reports and stops at; it has held     *)
(* back exactly the bytes of the unfinished event, JSON.parse has not        *)
(* thrown, and when the stream has ended every event has been delivered.     *)
C24_ChunkingDoesNotMatter ==
    LET n == FramesReceived
        e == FirstMarker(n)
    IN  /\ clientPc # "caught"
        /\ e = 0 => /\ tempCaptions = CaptionsOf(n)
                    /\ read = n
                    /\ clientPc \in {"reading", "submitted"}
                    /\ error = <<>>
                    /\ Utf8(completeData) \o pending
                         = SubSeq(Wire(stream), FrameEnd(n) + 1, received)
        /\ e # 0 => /\ tempCaptions = CaptionsOf(e - 1)
                    /\ read = e
                    /\ clientPc = "returned"
                    /\ error = <<SubstringFrom(stream[e].caption, 7)>>
        /\ clientPc = "submitted" => n = Len(stream)
        /\ captions = tempCaptions

\* the first event has been delivered and the second is held in part, the
\* last read ending inside a two-byte character
C24_Witness ==
    /\ clientPc = "reading"
    /\ Len(tempCaptions) = 1
    /\ completeData # <<>>
    /\ pending # <<>>
    /\ FrameEnd(1) < received

====
